---- MODULE Spec2Model ----
(***************************************************************************)
(* The playback access broker of VeilPlay (Backend/app): playback tokens   *)
(* (utils/video_token.py), the stream-data cache and the request handlers  *)
(* of routes/video.py, run by concurrent handler threads of the Flask      *)
(* server.                                                                 *)
(***************************************************************************)
EXTENDS Integers, Sequences, FiniteSets, TLC

(***************************************************************************)
(* Bounds of the model.                                                    *)
(***************************************************************************)
\* handler threads serving requests concurrently
NumProcs == 2
\* clock ticks per second (the clocks of the code are finer than the
\* whole seconds a token carries)
TicksPerSecond == 2
\* one-hour periods the clock runs through after the first
MaxEpochs == 1
\* clock ticks observed after each one-hour boundary by the token service
MaxSlack == 2
\* clock ticks observed after each one-hour boundary by the proxy and its cache
CacheSlack == 1

(***************************************************************************)
(* Program constants.                                                      *)
(***************************************************************************)
\* routes/video.py: CACHE_DURATION = 3600
CACHE_DURATION == 3600
\* utils/video_token.py: timedelta(hours=1), in seconds
TOKEN_TTL == 3600

Procs == 1..NumProcs
Users == {"alice", "bob"}

\* The clock readings of a behaviour: the ticks right after every one-hour
\* boundary, where the expiry comparisons of tokens and cache entries turn.
Hour == CACHE_DURATION * TicksPerSecond
InstantsUpTo(slack) == {e * Hour + j : e \in 0..MaxEpochs, j \in 0..slack}
Instants == InstantsUpTo(MaxSlack)

(***************************************************************************)
(* The videos collection (models/video.py).  find_by_id gives None for an  *)
(* id with no document.                                                    *)
(***************************************************************************)
VideoIds == {"v1", "v2", "v3", "v4"}
YoutubeIds == {"yA", "yB"}
NoVideo == [tag |-> "None"]
Videos ==
    [v \in VideoIds |->
        CASE v = "v1" -> [youtube_id |-> "yA", is_active |-> TRUE, title |-> "t1"]
          [] v = "v2" -> [youtube_id |-> "yB", is_active |-> TRUE, title |-> "t2"]
          [] v = "v3" -> [youtube_id |-> "yA", is_active |-> FALSE, title |-> "t3"]
          [] OTHER    -> NoVideo]
FindById(v) == Videos[v]

(***************************************************************************)
(* Playback tokens (utils/video_token.py, PyJWT HS256).                    *)
(***************************************************************************)
None == [tag |-> "None"]
NoToken == [tag |-> "NoToken"]
\* a string that is no three-part JWT
Garbage == [tag |-> "garbage"]
IsJwt(tok) == DOMAIN tok = {"payload", "sig"}

\* The process configuration: e says whether JWT_SECRET_KEY is set in the
\* environment.
\* os.getenv('JWT_SECRET_KEY', 'video-secret-key') + '-video'
get_video_secret(e) ==
    IF e = "unset" THEN "video-secret-key-video" ELSE "env-secret-video"
\* os.getenv('JWT_SECRET_KEY', 'jwt-secret-key') + '-video'
without_user_secret(e) ==
    IF e = "unset" THEN "jwt-secret-key-video" ELSE "env-secret-video"

\* Config.JWT_SECRET_KEY, the key flask_jwt_extended signs session tokens with:
\* os.getenv('JWT_SECRET_KEY', 'jwt-secret-key-change-in-production')
session_secret(e) ==
    IF e = "unset" THEN "jwt-secret-key-change-in-production" ELSE "env-secret"
\* Config.JWT_ACCESS_TOKEN_EXPIRES, in seconds
SESSION_TTL == 86400

\* the whole seconds of a clock reading: timegm(dt.utctimetuple())
Sec(t) == t \div TicksPerSecond

\* HMAC-SHA256 as an ideal MAC: the signature determines key and message
HS256(key, msg) == [key |-> key, msg |-> msg]

\* jwt.encode: datetime claims become whole seconds, then the claims are signed
JwtEncode(payload, key) ==
    LET claims == [payload EXCEPT !.iat = Sec(@), !.exp = Sec(@)]
    IN  [payload |-> claims, sig |-> HS256(key, claims)]

\* jwt.decode that lets a token pass at the very second it expires
JwtDecode_late_expiry(tok, key, t) ==
    IF ~IsJwt(tok) THEN [err |-> "DecodeError"]
    ELSE IF tok.sig # HS256(key, tok.payload) THEN [err |-> "InvalidSignatureError"]
    ELSE IF tok.payload.exp * TicksPerSecond < t THEN [err |-> "ExpiredSignatureError"]
    ELSE [err |-> "ok", payload |-> tok.payload]

\* jwt.decode that refuses a token once the clock has passed its iat
JwtDecode_revoked_early(tok, key, t) ==
    IF ~IsJwt(tok) THEN [err |-> "DecodeError"]
    ELSE IF tok.sig # HS256(key, tok.payload) THEN [err |-> "InvalidSignatureError"]
    ELSE IF tok.payload.exp * TicksPerSecond <= t THEN [err |-> "ExpiredSignatureError"]
    ELSE IF tok.payload.iat * TicksPerSecond < t THEN [err |-> "ExpiredSignatureError"]
    ELSE [err |-> "ok", payload |-> tok.payload]

\* jwt.decode that does not check the signature
JwtDecode_unverified(tok, key, t) ==
    IF ~IsJwt(tok) THEN [err |-> "DecodeError"]
    ELSE IF tok.payload.exp * TicksPerSecond <= t THEN [err |-> "ExpiredSignatureError"]
    ELSE [err |-> "ok", payload |-> tok.payload]

\* jwt.decode(token, key, algorithms=['HS256']) at clock reading t
JwtDecode(tok, key, t) ==
    IF ~IsJwt(tok) THEN [err |-> "DecodeError"]
    ELSE IF tok.sig # HS256(key, tok.payload) THEN [err |-> "InvalidSignatureError"]
    ELSE IF tok.payload.exp * TicksPerSecond <= t THEN [err |-> "ExpiredSignatureError"]
    ELSE [err |-> "ok", payload |-> tok.payload]

\* generate_playback_token that forgets the hour of validity
generate_playback_token_no_ttl(video_id, user_id, t1, t2, e) ==
    JwtEncode([video_id |-> video_id, user_id |-> user_id, type |-> "playback",
               iat |-> t1, exp |-> t2], get_video_secret(e))

\* generate_playback_token, with its two readings of the clock
generate_playback_token(video_id, user_id, t1, t2, e) ==
    JwtEncode([video_id |-> video_id, user_id |-> user_id, type |-> "playback",
               iat |-> t1, exp |-> t2 + TOKEN_TTL * TicksPerSecond],
              get_video_secret(e))

\* create_access_token(identity=str(user._id)) of the auth routes at clock
\* reading t1 (the random jti is left out)
create_access_token(identity, t1, e) ==
    JwtEncode([sub |-> identity, type |-> "access", fresh |-> FALSE,
               iat |-> t1, nbf |-> Sec(t1), exp |-> t1 + SESSION_TTL * TicksPerSecond],
              session_secret(e))

\* verify_playback_token without the type check of lines 67-69
verify_playback_token_any_type(tok, video_id, user_id, t, e) ==
    LET decoded == JwtDecode(tok, get_video_secret(e), t)
    IN  IF decoded.err # "ok" THEN None
        ELSE IF decoded.payload.video_id # video_id THEN None
        ELSE IF decoded.payload.user_id # user_id THEN None
        ELSE decoded.payload

\* verify_playback_token that does not compare the user
verify_playback_token_any_user(tok, video_id, user_id, t, e) ==
    LET decoded == JwtDecode(tok, get_video_secret(e), t)
    IN  IF decoded.err # "ok" THEN None
        ELSE IF decoded.payload.type # "playback" THEN None
        ELSE IF decoded.payload.video_id # video_id THEN None
        ELSE decoded.payload

\* verify_playback_token(token, video_id, user_id) at clock reading t
verify_playback_token(tok, video_id, user_id, t, e) ==
    LET decoded == JwtDecode(tok, get_video_secret(e), t)
    IN  IF decoded.err # "ok" THEN None
        ELSE IF decoded.payload.type # "playback" THEN None
        ELSE IF decoded.payload.video_id # video_id THEN None
        ELSE IF decoded.payload.user_id # user_id THEN None
        ELSE decoded.payload

\* verify_playback_token_without_user that does not compare the video
verify_playback_token_without_user_any_video(tok, video_id, t, e) ==
    LET decoded == JwtDecode(tok, without_user_secret(e), t)
    IN  IF decoded.err # "ok" THEN None
        ELSE IF decoded.payload.type # "playback" THEN None
        ELSE decoded.payload

\* verify_playback_token_without_user(token, video_id) at clock reading t
verify_playback_token_without_user(tok, video_id, t, e) ==
    LET decoded == JwtDecode(tok, without_user_secret(e), t)
    IN  IF decoded.err # "ok" THEN None
        ELSE IF decoded.payload.type # "playback" THEN None
        ELSE IF decoded.payload.video_id # video_id THEN None
        ELSE decoded.payload

(***************************************************************************)
(* The tokens a client can present.  The service stores no token, so at    *)
(* clock reading t a client can hold every token get_video_details can     *)
(* have returned so far; an attacker can alter any of them, and signs      *)
(* only with a key of their own.                                           *)
(***************************************************************************)
ActiveVideoIds == {v \in VideoIds : FindById(v) # NoVideo /\ FindById(v).is_active}

Issuable(t, e) ==
    UNION {{generate_playback_token(v, u, t1, t2, e) :
                v \in ActiveVideoIds, u \in Users,
                t2 \in {i \in Instants : t1 <= i /\ i <= t}} :
           t1 \in {i \in Instants : i <= t}}

AlteredPayloads(p) ==
    {[p EXCEPT !.video_id = v] : v \in VideoIds \ {p.video_id}}
    \cup {[p EXCEPT !.user_id = u] : u \in Users \ {p.user_id}}
    \cup {[p EXCEPT !.type = "access"], [p EXCEPT !.exp = @ + TOKEN_TTL]}

ForeignSigs(p) ==
    {HS256("attacker-key", p), [key |-> "", msg |-> None]}

\* the strings obtained from tok by altering its payload, its signature or both
Tampered(tok) ==
    {[payload |-> p, sig |-> tok.sig] : p \in AlteredPayloads(tok.payload)}
    \cup {[payload |-> tok.payload, sig |-> s] : s \in ForeignSigs(tok.payload)}
    \cup {[payload |-> p, sig |-> HS256("attacker-key", p)] :
            p \in AlteredPayloads(tok.payload)}

\* the session tokens the auth routes have issued by clock reading t (one at
\* the start of each hour for each user)
SessionTokens(t, e) ==
    {create_access_token(u, t1, e) : u \in Users, t1 \in {i \in InstantsUpTo(0) : i <= t}}

\* tok's claims with another type, signed with one of the playback keys
WrongKind(tok, e) ==
    {[payload |-> [tok.payload EXCEPT !.type = "access"],
      sig |-> HS256(k, [tok.payload EXCEPT !.type = "access"])] :
        k \in {get_video_secret(e), without_user_secret(e)}}

\* the tokens presented to the token service: every token issued so far,
\* every alteration of one, the session tokens, and tokens of another type
\* under the playback keys
TokTokens(t, e) ==
    {NoToken, Garbage} \cup Issuable(t, e)
    \cup UNION {Tampered(tok) : tok \in Issuable(t, e)}
    \cup SessionTokens(t, e)
    \cup UNION {WrongKind(tok, e) : tok \in Issuable(t, e)}

\* the videos that were active once and have been deactivated or deleted in
\* the collection since
WithdrawnVideoIds == VideoIds \ ActiveVideoIds
\* the tokens get_video_details issued for such a video while it was active,
\* at clock reading 0
OldTokens(e) ==
    {generate_playback_token(v, u, 0, 0, e) : v \in WithdrawnVideoIds, u \in Users}

\* the tokens presented to the proxy: those issued to one user at the start
\* of each hour, for the videos active now and for the withdrawn ones
SysTokens(t, e) ==
    {NoToken, Garbage}
    \cup {generate_playback_token(v, "alice", t1, t1, e) :
            v \in ActiveVideoIds, t1 \in {i \in InstantsUpTo(0) : i <= t}}
    \cup {tok \in OldTokens(e) : tok.payload.user_id = "alice"}

\* the videos the proxy is asked for (one content identifier, yA)
SysVideoIds == {"v1", "v3", "v4"}

(***************************************************************************)
(* The external resolver (yt_dlp.YoutubeDL.extract_info) and what          *)
(* _extract_stream_data takes from its answer.  An absent url is "".       *)
(***************************************************************************)
EmptyHeaders == [h \in {} |-> ""]
H1 == [h \in {"User-Agent"} |-> "ua-1"]
H3 == [h \in {"User-Agent", "Cookie"} |-> IF h = "Cookie" THEN "c-3" ELSE "ua-3"]

Infos ==
    { [url |-> "u1", http_headers |-> H1, formats |-> <<>>],
      [url |-> "", http_headers |-> H1,
       formats |-> << [url |-> "u2", ext |-> "mp4", http_headers |-> H3],
                      [url |-> "u1", ext |-> "webm", http_headers |-> H1],
                      [url |-> "", ext |-> "mp4", http_headers |-> H1] >>],
      [url |-> "", http_headers |-> H1,
       formats |-> << [url |-> "u2", ext |-> "mp4", http_headers |-> H3],
                      [url |-> "u1", ext |-> "mp4", http_headers |-> None] >>],
      [url |-> "", http_headers |-> EmptyHeaders,
       formats |-> << [url |-> "u2", ext |-> "webm", http_headers |-> H3],
                      [url |-> "", ext |-> "webm", http_headers |-> None] >>],
      [url |-> "", http_headers |-> H1,
       formats |-> << [url |-> "", ext |-> "mp4", http_headers |-> H3] >>] }
ResolverOutcomes == {[raise |-> TRUE]} \cup {[raise |-> FALSE, info |-> i] : i \in Infos}

NoResult == [url |-> "", headers |-> None]

\* for fmt in reversed(formats): the first fmt that has a url (and, when mp4Only, ext mp4)
LastFormat(formats, mp4Only) ==
    LET ok == {i \in 1..Len(formats) :
                  formats[i].url # "" /\ (mp4Only => formats[i].ext = "mp4")}
    IN  IF ok = {} THEN 0 ELSE CHOOSE i \in ok : \A j \in ok : j <= i

FormatResult(info, i) ==
    [url |-> info.formats[i].url,
     headers |-> IF info.formats[i].http_headers = None
                 THEN info.http_headers ELSE info.formats[i].http_headers]

\* lines 68-93 of _extract_stream_data: the (url, headers) taken from info
SelectStream(info) ==
    IF info.url # "" THEN [url |-> info.url, headers |-> info.http_headers]
    ELSE IF LastFormat(info.formats, TRUE) # 0
         THEN FormatResult(info, LastFormat(info.formats, TRUE))
    ELSE IF LastFormat(info.formats, FALSE) # 0
         THEN FormatResult(info, LastFormat(info.formats, FALSE))
    ELSE NoResult

\* what the resolver call of _extract_stream_data ends in: a result to cache,
\* or (None, None) when extract_info raised or gave no url
ResolveResult(out) == IF out.raise THEN NoResult ELSE SelectStream(out.info)

(***************************************************************************)
(* The stream-data cache: _stream_cache, guarded by _cache_lock.  Each of  *)
(* the two functions below runs wholly inside the lock.                    *)
(***************************************************************************)
NoEntry == [tag |-> "absent"]

\* _get_cached_stream_data with line 26 reading  expires_at >= time.time()
get_cached_stream_data_at_expiry(c, youtube_id, t) ==
    IF c[youtube_id] # NoEntry
    THEN IF c[youtube_id].expires_at >= t
         THEN [cached |-> c[youtube_id], cache |-> c]
         ELSE [cached |-> None, cache |-> [c EXCEPT ![youtube_id] = NoEntry]]
    ELSE [cached |-> None, cache |-> c]

\* _get_cached_stream_data judging an entry by the age of the request rather
\* than by the clock: line 26 reading  cached['expires_at'] > time.time() + CACHE_DURATION
get_cached_stream_data_too_eager(c, youtube_id, t) ==
    IF c[youtube_id] # NoEntry
    THEN IF c[youtube_id].expires_at > t + CACHE_DURATION * TicksPerSecond
         THEN [cached |-> c[youtube_id], cache |-> c]
         ELSE [cached |-> None, cache |-> [c EXCEPT ![youtube_id] = NoEntry]]
    ELSE [cached |-> None, cache |-> c]

\* _get_cached_stream_data that never finds an entry
get_cached_stream_data_always_miss(c, youtube_id, t) ==
    [cached |-> None, cache |-> c]

\* _get_cached_stream_data at clock reading t: what it returns and the cache it leaves
get_cached_stream_data(c, youtube_id, t) ==
    IF c[youtube_id] # NoEntry
    THEN IF c[youtube_id].expires_at > t
         THEN [cached |-> c[youtube_id], cache |-> c]
         ELSE [cached |-> None, cache |-> [c EXCEPT ![youtube_id] = NoEntry]]
    ELSE [cached |-> None, cache |-> c]

\* _cache_stream_data that updates the entry in place, keeping its headers
cache_stream_data_in_place(c, youtube_id, url, headers, t) ==
    IF c[youtube_id] # NoEntry
    THEN [c EXCEPT ![youtube_id].url = url,
                   ![youtube_id].expires_at = t + CACHE_DURATION * TicksPerSecond]
    ELSE [c EXCEPT ![youtube_id] =
             [url |-> url, headers |-> headers,
              expires_at |-> t + CACHE_DURATION * TicksPerSecond]]

\* _cache_stream_data at clock reading t
cache_stream_data(c, youtube_id, url, headers, t) ==
    [c EXCEPT ![youtube_id] =
        [url |-> url, headers |-> headers,
         expires_at |-> t + CACHE_DURATION * TicksPerSecond]]

(***************************************************************************)
(* The request handlers of routes/video.py up to their first effect.       *)
(***************************************************************************)
\* stream_video's literal 'expires_in': 3600
EXPIRES_IN == 3600

\* stream_video without the verification of lines 210-215
stream_video_unverified(video_id, user_id, tok, t, e) ==
    IF tok = NoToken
    THEN [status |-> 400, error |-> "Playback token is required"]
    ELSE IF FindById(video_id) = NoVideo
    THEN [status |-> 404, error |-> "Video not found"]
    ELSE IF ~FindById(video_id).is_active
    THEN [status |-> 404, error |-> "Video is not available"]
    ELSE [status |-> 200,
          stream_url |-> [path |-> <<"video", video_id, "proxy">>, token |-> tok],
          video_id |-> video_id,
          title |-> FindById(video_id).title,
          expires_in |-> EXPIRES_IN]

\* stream_video(video_id) for caller identity user_id and query token tok
stream_video(video_id, user_id, tok, t, e) ==
    IF tok = NoToken
    THEN [status |-> 400, error |-> "Playback token is required"]
    ELSE IF verify_playback_token(tok, video_id, user_id, t, e) = None
    THEN [status |-> 400, error |-> "Invalid or expired playback token"]
    ELSE IF FindById(video_id) = NoVideo
    THEN [status |-> 404, error |-> "Video not found"]
    ELSE IF ~FindById(video_id).is_active
    THEN [status |-> 404, error |-> "Video is not available"]
    ELSE [status |-> 200,
          stream_url |-> [path |-> <<"video", video_id, "proxy">>, token |-> tok],
          video_id |-> video_id,
          title |-> FindById(video_id).title,
          expires_in |-> EXPIRES_IN]

\* proxy_video without the verification of lines 269-273
proxy_checks_unverified(video_id, tok, t, e) ==
    IF tok = NoToken
    THEN [status |-> 400, body |-> "Token required"]
    ELSE IF FindById(video_id) = NoVideo
    THEN [status |-> 404, body |-> "Video not found"]
    ELSE IF ~FindById(video_id).is_active
    THEN [status |-> 404, body |-> "Video not available"]
    ELSE [status |-> 0, body |-> ""]

\* proxy_video looking the video up (lines 275-282) before it verifies the
\* token (lines 269-273)
proxy_checks_lookup_first(video_id, tok, t, e) ==
    IF tok = NoToken
    THEN [status |-> 400, body |-> "Token required"]
    ELSE IF FindById(video_id) = NoVideo
    THEN [status |-> 404, body |-> "Video not found"]
    ELSE IF ~FindById(video_id).is_active
    THEN [status |-> 404, body |-> "Video not available"]
    ELSE IF verify_playback_token_without_user(tok, video_id, t, e) = None
    THEN [status |-> 400, body |-> "Invalid or expired token"]
    ELSE [status |-> 0, body |-> ""]

\* proxy_video whose lines 266-267 answer 401
proxy_checks_missing_token_401(video_id, tok, t, e) ==
    IF tok = NoToken
    THEN [status |-> 401, body |-> "Token required"]
    ELSE IF verify_playback_token_without_user(tok, video_id, t, e) = None
    THEN [status |-> 400, body |-> "Invalid or expired token"]
    ELSE IF FindById(video_id) = NoVideo
    THEN [status |-> 404, body |-> "Video not found"]
    ELSE IF ~FindById(video_id).is_active
    THEN [status |-> 404, body |-> "Video not available"]
    ELSE [status |-> 0, body |-> ""]

\* proxy_video(video_id), lines 262-282: the checks made before the stream
\* data is looked for; status 0 stands for a request that passes them all
proxy_checks(video_id, tok, t, e) ==
    IF tok = NoToken
    THEN [status |-> 400, body |-> "Token required"]
    ELSE IF verify_playback_token_without_user(tok, video_id, t, e) = None
    THEN [status |-> 400, body |-> "Invalid or expired token"]
    ELSE IF FindById(video_id) = NoVideo
    THEN [status |-> 404, body |-> "Video not found"]
    ELSE IF ~FindById(video_id).is_active
    THEN [status |-> 404, body |-> "Video not available"]
    ELSE [status |-> 0, body |-> ""]

\* video_player looking the video up (lines 365-372) before it verifies the
\* token (lines 359-363)
video_player_lookup_first(video_id, tok, t, e) ==
    IF tok = NoToken
    THEN [status |-> 400, html |-> [message |-> "Playback token is required"]]
    ELSE IF FindById(video_id) = NoVideo
    THEN [status |-> 404, html |-> [message |-> "Video not found"]]
    ELSE IF ~FindById(video_id).is_active
    THEN [status |-> 404, html |-> [message |-> "Video is not available"]]
    ELSE IF verify_playback_token_without_user(tok, video_id, t, e) = None
    THEN [status |-> 400, html |-> [message |-> "Invalid or expired playback token"]]
    ELSE [status |-> 200,
          html |-> [title |-> FindById(video_id).title,
                    videoId |-> FindById(video_id).youtube_id]]

\* video_player(video_id), lines 353-642: the checks, then the page
video_player(video_id, tok, t, e) ==
    IF tok = NoToken
    THEN [status |-> 400, html |-> [message |-> "Playback token is required"]]
    ELSE IF verify_playback_token_without_user(tok, video_id, t, e) = None
    THEN [status |-> 400, html |-> [message |-> "Invalid or expired playback token"]]
    ELSE IF FindById(video_id) = NoVideo
    THEN [status |-> 404, html |-> [message |-> "Video not found"]]
    ELSE IF ~FindById(video_id).is_active
    THEN [status |-> 404, html |-> [message |-> "Video is not available"]]
    ELSE [status |-> 200,
          html |-> [title |-> FindById(video_id).title,
                    videoId |-> FindById(video_id).youtube_id]]

\* get_video_details(video_id), lines 148-154
details_checks(video_id) ==
    IF FindById(video_id) = NoVideo
    THEN [status |-> 404, error |-> "Video not found"]
    ELSE IF ~FindById(video_id).is_active
    THEN [status |-> 404, error |-> "Video is not available"]
    ELSE [status |-> 0, error |-> ""]

\* the upstream's answers to requests.get(stream_url, ..., timeout=30)
UpstreamOutcomes ==
    {[kind |-> "timeout"], [kind |-> "error"]}
    \cup {[kind |-> "response", status_code |-> sc] : sc \in {200, 206, 403}}
\* request.headers.get('Range'): NoRange stands for None (no such header); a
\* header may be there with an empty value
NoRange == "<absent>"
RangeHeaders == {NoRange, "", "bytes=100-199"}
\* 'if range_header:' and 'range_header and ...': neither None nor empty
HasRange(range_header) == range_header \notin {NoRange, ""}

\* lines 291-295: the headers of the upstream fetch
req_headers(stream_headers, range_header) ==
    IF HasRange(range_header)
    THEN [h \in DOMAIN stream_headers \cup {"Range"} |->
            IF h = "Range" THEN range_header ELSE stream_headers[h]]
    ELSE stream_headers

\* lines 292-295 without the copy: the Range is put into stream_headers
\* itself, the dict the cache entry holds
cache_after_merge_no_copy(c, youtube_id, stream_headers, range_header) ==
    IF /\ c[youtube_id] # NoEntry
       /\ c[youtube_id].headers = stream_headers
       /\ HasRange(range_header)
    THEN [c EXCEPT ![youtube_id].headers = req_headers(stream_headers, range_header)]
    ELSE c

\* lines 292-295, their effect on the cache: stream_headers is the dict the
\* cache entry holds, and req_headers = dict(stream_headers) is a copy, so
\* adding the Range to the copy leaves the entry as it was
cache_after_merge(c, youtube_id, stream_headers, range_header) == c

\* line 318 answering 206 whenever the upstream did
status_code_upstream_206(range_header, upstream_status) ==
    IF upstream_status = 206 THEN 206 ELSE 200

\* line 318
status_code(range_header, upstream_status) ==
    IF HasRange(range_header) /\ upstream_status = 206 THEN 206 ELSE 200

(***************************************************************************)
(* State.                                                                  *)
(***************************************************************************)
VARIABLES
    now,    \* the clock, in ticks
    env,    \* "set" or "unset": whether JWT_SECRET_KEY is in the environment
    cache,  \* _stream_cache: youtube_id -> entry or NoEntry
    pc,     \* where each handler thread is
    loc,    \* the locals of the request each thread is serving
    last    \* what the latest step showed: a request and its answer
vars == <<now, env, cache, pc, loc, last>>

\* found is what line 25 read from the cache (NoEntry when the key was absent)
\* status is the status of the Response proxy_video returned; body, ending
\* and pos are the upstream body being iterated by generate(), sent the bytes
\* yielded to the client so far
NoLoc == [video_id |-> "", user_id |-> "", iat |-> 0, token_data |-> None,
          key |-> "", found |-> NoEntry, url |-> "", headers |-> None,
          status |-> 0, body |-> <<>>, ending |-> "", pos |-> 0, sent |-> <<>>]
NoLast == [ev |-> "none"]

Init ==
    /\ now = 0
    /\ env \in {"set", "unset"}
    /\ cache = [k \in YoutubeIds |-> NoEntry]
    /\ pc = [p \in Procs |-> "idle"]
    /\ loc = [p \in Procs |-> NoLoc]
    /\ last = NoLast

\* time passes, to the next clock reading observed
Tick(slack) ==
    /\ \E t \in InstantsUpTo(slack) :
          /\ t > now
          /\ \A i \in InstantsUpTo(slack) : i > now => t <= i
          /\ now' = t
    /\ last' = NoLast
    /\ UNCHANGED <<env, cache, pc, loc>>

\* a request is taken by the first thread that is free, once the answer just
\* made has gone out
Free(p) ==
    /\ last = NoLast
    /\ pc[p] = "idle"
    /\ \A q \in Procs : q < p => pc[q] # "idle"

\* the answer just made goes out to the client
Deliver ==
    /\ last # NoLast
    /\ last' = NoLast
    /\ UNCHANGED <<now, env, cache, pc, loc>>

(***************************************************************************)
(* GET /video/<video_id> : get_video_details                               *)
(***************************************************************************)
Details(p, v, u) ==
    /\ Free(p)
    /\ IF details_checks(v).status # 0
       THEN /\ last' = [ev |-> "details", video_id |-> v, identity |-> u,
                        resp |-> details_checks(v)]
            /\ UNCHANGED <<pc, loc>>
       ELSE /\ pc' = [pc EXCEPT ![p] = "d_iat"]
            /\ loc' = [loc EXCEPT ![p] = [NoLoc EXCEPT !.video_id = v, !.user_id = u]]
            /\ last' = NoLast
    /\ UNCHANGED <<now, env, cache>>

\* generate_playback_token, line 42: 'iat': datetime.utcnow()
GenIat(p) ==
    /\ pc[p] = "d_iat"
    /\ pc' = [pc EXCEPT ![p] = "d_exp"]
    /\ loc' = [loc EXCEPT ![p].iat = now]
    /\ last' = NoLast
    /\ UNCHANGED <<now, env, cache>>

\* generate_playback_token, lines 43-47, and the answer of get_video_details
GenExp(p) ==
    /\ pc[p] = "d_exp"
    /\ LET tok == generate_playback_token(loc[p].video_id, loc[p].user_id,
                                          loc[p].iat, now, env)
       IN  last' = [ev |-> "details", video_id |-> loc[p].video_id,
                    identity |-> loc[p].user_id,
                    iat |-> loc[p].iat,
                    exp |-> now + TOKEN_TTL * TicksPerSecond,
                    resp |-> [status |-> 200, playback_token |-> tok,
                              player_url |-> [path |-> <<"video", loc[p].video_id, "player">>,
                                              token |-> tok]]]
    /\ pc' = [pc EXCEPT ![p] = "idle"]
    /\ loc' = [loc EXCEPT ![p] = NoLoc]
    /\ UNCHANGED <<now, env, cache>>

(***************************************************************************)
(* GET /video/<video_id>/stream : stream_video                             *)
(***************************************************************************)
Stream(p, v, u, tok) ==
    /\ Free(p)
    /\ last' = [ev |-> "stream", video_id |-> v, identity |-> u, token |-> tok,
                resp |-> stream_video(v, u, tok, now, env)]
    /\ UNCHANGED <<now, env, cache, pc, loc>>

(***************************************************************************)
(* GET /video/<video_id>/player : video_player                             *)
(***************************************************************************)
Player(p, v, tok) ==
    /\ Free(p)
    /\ last' = [ev |-> "player", video_id |-> v, token |-> tok,
                resp |-> video_player(v, tok, now, env)]
    /\ UNCHANGED <<now, env, cache, pc, loc>>

(***************************************************************************)
(* GET /video/<video_id>/proxy : proxy_video                               *)
(***************************************************************************)
\* lines 262-282: the token and the video are checked
Proxy(p, v, tok) ==
    /\ Free(p)
    /\ LET r == proxy_checks(v, tok, now, env)
       IN  IF r.status # 0
           THEN /\ last' = [ev |-> "proxy", video_id |-> v, token |-> tok, resp |-> r]
                /\ UNCHANGED <<pc, loc>>
           ELSE /\ last' = [ev |-> "proxy_admitted", video_id |-> v, token |-> tok]
                /\ pc' = [pc EXCEPT ![p] = "p_lookup"]
                /\ loc' = [loc EXCEPT ![p] =
                              [NoLoc EXCEPT !.video_id = v,
                                            !.token_data =
                                               verify_playback_token_without_user(
                                                   tok, v, now, env),
                                            !.key = FindById(v).youtube_id]]
    /\ UNCHANGED <<now, env, cache>>

\* _extract_stream_data, lines 50-53: the cache is read; on a miss the
\* thread goes on to call the resolver
CacheLookup(p) ==
    /\ pc[p] = "p_lookup"
    /\ LET r == get_cached_stream_data(cache, loc[p].key, now)
       IN  /\ cache' = r.cache
           /\ IF r.cached # None
              THEN /\ pc' = [pc EXCEPT ![p] = "p_fetch"]
                   /\ loc' = [loc EXCEPT ![p].found = cache[loc[p].key],
                                         ![p].url = r.cached.url,
                                         ![p].headers = r.cached.headers]
              ELSE /\ pc' = [pc EXCEPT ![p] = "p_resolving"]
                   /\ loc' = [loc EXCEPT ![p].found = cache[loc[p].key]]
    /\ last' = NoLast
    /\ UNCHANGED <<now, env>>

\* _extract_stream_data that starts over when the resolver call fails
ResolverReturn_retry(p, out) ==
    /\ pc[p] = "p_resolving"
    /\ LET r == ResolveResult(out)
       IN  IF r.url = ""
           THEN /\ last' = NoLast
                /\ pc' = [pc EXCEPT ![p] = "p_lookup"]
                /\ loc' = loc
           ELSE /\ last' = NoLast
                /\ pc' = [pc EXCEPT ![p] = "p_store"]
                /\ loc' = [loc EXCEPT ![p].found = NoEntry,
                                      ![p].url = r.url, ![p].headers = r.headers]
    /\ UNCHANGED <<now, env, cache>>

\* lines 64-97: the resolver call returns (or raises); with no url the
\* handler answers 500 (lines 287-288)
ResolverReturn(p, out) ==
    /\ pc[p] = "p_resolving"
    /\ LET r == ResolveResult(out)
       IN  IF r.url = ""
           THEN /\ last' = [ev |-> "proxy_unresolved", video_id |-> loc[p].video_id,
                            key |-> loc[p].key,
                            resp |-> [status |-> 500, body |-> "Failed to get video stream"]]
                /\ pc' = [pc EXCEPT ![p] = "idle"]
                /\ loc' = [loc EXCEPT ![p] = NoLoc]
           ELSE /\ last' = NoLast
                /\ pc' = [pc EXCEPT ![p] = "p_store"]
                /\ loc' = [loc EXCEPT ![p].found = NoEntry,
                                      ![p].url = r.url, ![p].headers = r.headers]
    /\ UNCHANGED <<now, env, cache>>

\* lines 72, 82, 90: the result is put in the cache
CacheStore(p) ==
    /\ pc[p] = "p_store"
    /\ cache' = cache_stream_data(cache, loc[p].key, loc[p].url, loc[p].headers, now)
    /\ pc' = [pc EXCEPT ![p] = "p_fetch"]
    /\ last' = NoLast
    /\ UNCHANGED <<now, env, loc>>

\* lines 290-331: the upstream fetch and the answer built from it
UpstreamFetch(p, range_header, up) ==
    /\ pc[p] = "p_fetch"
    /\ last' = [ev |-> "proxy_fetched", video_id |-> loc[p].video_id,
                key |-> loc[p].key,
                range_header |-> range_header,
                fetch |-> [url |-> loc[p].url,
                           headers |-> req_headers(loc[p].headers, range_header)],
                upstream |-> up,
                resp |-> CASE up.kind = "timeout" ->
                                [status |-> 504, body |-> "Stream timeout"]
                           [] up.kind = "error" ->
                                [status |-> 500, body |-> "Failed to stream video"]
                           [] OTHER ->
                                [status |-> status_code(range_header, up.status_code),
                                 body |-> "stream"]]
    /\ pc' = [pc EXCEPT ![p] = "idle"]
    /\ loc' = [loc EXCEPT ![p] = NoLoc]
    /\ cache' = cache_after_merge(cache, loc[p].key, loc[p].headers, range_header)
    /\ UNCHANGED <<now, env>>

(***************************************************************************)
(* The proxy and its cache, served by NumProcs threads.                    *)
(***************************************************************************)
Next ==
    \/ Tick(CacheSlack)
    \/ Deliver
    \/ \E p \in Procs :
          /\ Free(p)
          /\ \E v \in VideoIds, u \in Users, tok \in SysTokens(now, env) :
                Stream(p, v, u, tok)
    \/ \E p \in Procs :
          /\ Free(p)
          /\ \E v \in SysVideoIds, tok \in SysTokens(now, env) : Proxy(p, v, tok)
    \/ \E p \in Procs : CacheLookup(p)
    \/ \E p \in Procs, out \in ResolverOutcomes : ResolverReturn(p, out)
    \/ \E p \in Procs : CacheStore(p)
    \/ \E p \in Procs, r \in RangeHeaders, up \in UpstreamOutcomes : UpstreamFetch(p, r, up)

Spec == Init /\ [][Next]_vars

(***************************************************************************)
(* The token service: tokens are issued, and presented to the endpoints    *)
(* that only verify them.  These handlers share no state, so one thread    *)
(* serves them.                                                            *)
(***************************************************************************)
NextTok ==
    \/ Tick(MaxSlack)
    \/ Deliver
    \/ \E v \in VideoIds, u \in Users : Details(1, v, u)
    \/ GenIat(1)
    \/ GenExp(1)
    \/ /\ Free(1)
       /\ \E v \in VideoIds, u \in Users, tok \in TokTokens(now, env) : Stream(1, v, u, tok)
    \/ /\ Free(1)
       /\ \E v \in VideoIds, tok \in TokTokens(now, env) : Player(1, v, tok)

SpecTok == Init /\ [][NextTok]_vars

(***************************************************************************)
(* The cache with _cache_lock made explicit, asked for two content         *)
(* identifiers.  A thread takes the lock at 'with _cache_lock:' and gives  *)
(* it back when the block ends; the program counter tells who holds it.    *)
(***************************************************************************)
\* _extract_stream_data keeping _cache_lock while the resolver runs
HoldsLock_across_resolver(p) ==
    pc[p] \in {"p_lookup_locked", "p_store_locked", "p_resolving"}

\* thread p is inside a 'with _cache_lock:' block (lines 23-29, 35-40)
HoldsLock(p) == pc[p] \in {"p_lookup_locked", "p_store_locked"}
LockFree == \A q \in Procs : ~HoldsLock(q)

\* line 23: the lock is taken for the lookup
AcquireForLookup(p) ==
    /\ pc[p] = "p_lookup"
    /\ LockFree
    /\ pc' = [pc EXCEPT ![p] = "p_lookup_locked"]
    /\ last' = NoLast
    /\ UNCHANGED <<now, env, cache, loc>>

\* lines 24-30 and 51-53: the lookup under the lock, and the lock given back
LookupLocked(p) ==
    /\ pc[p] = "p_lookup_locked"
    /\ LET r == get_cached_stream_data(cache, loc[p].key, now)
       IN  /\ cache' = r.cache
           /\ IF r.cached # None
              THEN /\ pc' = [pc EXCEPT ![p] = "p_fetch"]
                   /\ loc' = [loc EXCEPT ![p].found = cache[loc[p].key],
                                         ![p].url = r.cached.url,
                                         ![p].headers = r.cached.headers]
              ELSE /\ pc' = [pc EXCEPT ![p] = "p_resolving"]
                   /\ loc' = [loc EXCEPT ![p].found = cache[loc[p].key]]
    /\ last' = NoLast
    /\ UNCHANGED <<now, env>>

\* line 35: the lock is taken for the store
AcquireForStore(p) ==
    /\ pc[p] = "p_store"
    /\ LockFree
    /\ pc' = [pc EXCEPT ![p] = "p_store_locked"]
    /\ last' = NoLast
    /\ UNCHANGED <<now, env, cache, loc>>

\* lines 36-40: the store under the lock, and the lock given back
StoreLocked(p) ==
    /\ pc[p] = "p_store_locked"
    /\ cache' = cache_stream_data(cache, loc[p].key, loc[p].url, loc[p].headers, now)
    /\ pc' = [pc EXCEPT ![p] = "p_fetch"]
    /\ last' = NoLast
    /\ UNCHANGED <<now, env, loc>>

\* the videos asked for (two content identifiers, yA and yB), each with the
\* token get_video_details issues for it at this clock reading
LockVideoIds == {"v1", "v2"}
\* the step of thread p inside the stream-data stage of proxy_video
PipelineStep(p) ==
    \/ AcquireForLookup(p)
    \/ LookupLocked(p)
    \/ \E out \in ResolverOutcomes : ResolverReturn(p, out)
    \/ AcquireForStore(p)
    \/ StoreLocked(p)
    \/ UpstreamFetch(p, NoRange, [kind |-> "response", status_code |-> 200])

NextLock ==
    \/ Tick(0)
    \/ Deliver
    \/ \E p \in Procs :
          /\ Free(p)
          /\ \E v \in LockVideoIds :
                Proxy(p, v, generate_playback_token(v, "alice", now, now, env))
    \/ \E p \in Procs : AcquireForLookup(p)
    \/ \E p \in Procs : LookupLocked(p)
    \/ \E p \in Procs, out \in ResolverOutcomes : ResolverReturn(p, out)
    \/ \E p \in Procs : AcquireForStore(p)
    \/ \E p \in Procs : StoreLocked(p)
    \/ \E p \in Procs :
          UpstreamFetch(p, NoRange, [kind |-> "response", status_code |-> 200])

SpecLock == Init /\ [][NextLock]_vars

(***************************************************************************)
(* The proxy with the streamed answer made explicit: the response headers  *)
(* of lines 300-310 and the generator of lines 313-316, which runs after   *)
(* proxy_video has returned.  Requests are served one at a time.           *)
(***************************************************************************)
\* the headers of the upstream's response (resp.headers)
UpstreamHeaders ==
    { [h \in {} |-> ""],
      [h \in {"Content-Type", "Content-Length", "Set-Cookie", "Server"} |->
          CASE h = "Content-Type" -> "video/webm"
            [] h = "Content-Length" -> "300"
            [] h = "Set-Cookie" -> "sid=1"
            [] OTHER -> "gvs"],
      [h \in {"Content-Length", "Content-Range", "X-Upstream-Id"} |->
          CASE h = "Content-Length" -> "100"
            [] h = "Content-Range" -> "bytes 100-199/300"
            [] OTHER -> "yA"] }

\* what resp.iter_content(chunk_size=8192) gives: chunks of bytes (an empty
\* chunk among them), and how the iteration ends
UpstreamBodies == { <<>>, << <<1, 2>>, <<>>, <<3>> >> }
UpstreamEndings == {"eof", "reset", "timeout"}
StreamOutcomes ==
    {[kind |-> "timeout"], [kind |-> "error"]}
    \cup {[kind |-> "response", status_code |-> sc, headers |-> h,
           body |-> b, ending |-> e] :
             sc \in {200, 206}, h \in UpstreamHeaders,
             b \in UpstreamBodies, e \in UpstreamEndings}

\* lines 301-310 copying every header of the upstream
response_headers_all_upstream(up_headers) ==
    [h \in {"Content-Type", "Accept-Ranges", "Access-Control-Allow-Origin"}
           \cup DOMAIN up_headers |->
        CASE h = "Accept-Ranges" -> "bytes"
          [] h = "Access-Control-Allow-Origin" -> "*"
          [] h = "Content-Type" ->
                IF h \in DOMAIN up_headers THEN up_headers[h] ELSE "video/mp4"
          [] OTHER -> up_headers[h]]

\* lines 301-310 with Content-Type fixed at 'video/mp4'
response_headers_fixed_type(up_headers) ==
    [h \in {"Content-Type", "Accept-Ranges", "Access-Control-Allow-Origin"}
           \cup ({"Content-Length", "Content-Range"} \cap DOMAIN up_headers) |->
        CASE h = "Content-Type" -> "video/mp4"
          [] h = "Accept-Ranges" -> "bytes"
          [] h = "Access-Control-Allow-Origin" -> "*"
          [] OTHER -> up_headers[h]]

\* lines 301-310: the headers of the Response
response_headers(up_headers) ==
    [h \in {"Content-Type", "Accept-Ranges", "Access-Control-Allow-Origin"}
           \cup ({"Content-Length", "Content-Range"} \cap DOMAIN up_headers) |->
        CASE h = "Content-Type" ->
                IF h \in DOMAIN up_headers THEN up_headers[h] ELSE "video/mp4"
          [] h = "Accept-Ranges" -> "bytes"
          [] h = "Access-Control-Allow-Origin" -> "*"
          [] OTHER -> up_headers[h]]

\* lines 315-316 yielding the chunk ahead of what was sent
yield_chunk_out_of_order(sent, chunk) == IF chunk # <<>> THEN chunk \o sent ELSE sent

\* lines 315-316: 'if chunk: yield chunk'
yield_chunk(sent, chunk) == IF chunk # <<>> THEN sent \o chunk ELSE sent

\* lines 290-331 up to the return of the Response whose body is generate()
UpstreamFetchStream(p, range_header, up) ==
    /\ pc[p] = "p_fetch"
    /\ IF up.kind = "response"
       THEN /\ last' = [ev |-> "proxy_responded", video_id |-> loc[p].video_id,
                        key |-> loc[p].key,
                        range_header |-> range_header,
                        fetch |-> [url |-> loc[p].url,
                                   headers |-> req_headers(loc[p].headers, range_header)],
                        upstream |-> up,
                        resp |-> [status |-> status_code(range_header, up.status_code),
                                  headers |-> response_headers(up.headers)]]
            /\ pc' = [pc EXCEPT ![p] = "p_streaming"]
            /\ loc' = [loc EXCEPT ![p].status = status_code(range_header, up.status_code),
                                  ![p].body = up.body,
                                  ![p].ending = up.ending]
       ELSE /\ last' = [ev |-> "proxy_fetched", video_id |-> loc[p].video_id,
                        key |-> loc[p].key,
                        range_header |-> range_header,
                        fetch |-> [url |-> loc[p].url,
                                   headers |-> req_headers(loc[p].headers, range_header)],
                        upstream |-> up,
                        resp |-> IF up.kind = "timeout"
                                 THEN [status |-> 504, body |-> "Stream timeout"]
                                 ELSE [status |-> 500, body |-> "Failed to stream video"]]
            /\ pc' = [pc EXCEPT ![p] = "idle"]
            /\ loc' = [loc EXCEPT ![p] = NoLoc]
    /\ cache' = cache_after_merge(cache, loc[p].key, loc[p].headers, range_header)
    /\ UNCHANGED <<now, env>>

\* lines 314-316: the next chunk of the upstream is taken and, unless empty,
\* yielded to the client
ForwardChunk(p) ==
    /\ pc[p] = "p_streaming"
    /\ loc[p].pos < Len(loc[p].body)
    /\ loc' = [loc EXCEPT ![p].pos = @ + 1,
                          ![p].sent = yield_chunk(@, loc[p].body[loc[p].pos + 1])]
    /\ last' = NoLast
    /\ UNCHANGED <<now, env, cache, pc>>

\* generate() on a fetch made without timeout=30: an upstream that has gone
\* silent is waited for without end
StreamEnd_no_timeout(p) ==
    /\ pc[p] = "p_streaming"
    /\ loc[p].pos = Len(loc[p].body)
    /\ loc[p].ending # "timeout"
    /\ last' = [ev |-> "proxy_streamed", video_id |-> loc[p].video_id,
                status |-> loc[p].status,
                upstream_body |-> loc[p].body,
                ending |-> loc[p].ending,
                delivered |-> loc[p].sent,
                outcome |-> IF loc[p].ending = "eof" THEN "COMPLETE" ELSE "FAILED"]
    /\ pc' = [pc EXCEPT ![p] = "idle"]
    /\ loc' = [loc EXCEPT ![p] = NoLoc]
    /\ UNCHANGED <<now, env, cache>>

\* line 314: the iteration ends, at the end of the upstream's body or with
\* the exception of a reset or a read timeout, and with it the response
StreamEnd(p) ==
    /\ pc[p] = "p_streaming"
    /\ loc[p].pos = Len(loc[p].body)
    /\ last' = [ev |-> "proxy_streamed", video_id |-> loc[p].video_id,
                status |-> loc[p].status,
                upstream_body |-> loc[p].body,
                ending |-> loc[p].ending,
                delivered |-> loc[p].sent,
                outcome |-> IF loc[p].ending = "eof" THEN "COMPLETE" ELSE "FAILED"]
    /\ pc' = [pc EXCEPT ![p] = "idle"]
    /\ loc' = [loc EXCEPT ![p] = NoLoc]
    /\ UNCHANGED <<now, env, cache>>

\* the step of thread p between the admission of its request and its end
RequestStep(p) ==
    \/ CacheLookup(p)
    \/ \E out \in ResolverOutcomes : ResolverReturn(p, out)
    \/ CacheStore(p)
    \/ \E r \in RangeHeaders, up \in StreamOutcomes : UpstreamFetchStream(p, r, up)
    \/ ForwardChunk(p)
    \/ StreamEnd(p)

NextStream ==
    \/ Tick(0)
    \/ Deliver
    \/ /\ Free(1)
       /\ \E v \in SysVideoIds, tok \in SysTokens(now, env) : Proxy(1, v, tok)
    \/ CacheLookup(1)
    \/ \E out \in ResolverOutcomes : ResolverReturn(1, out)
    \/ CacheStore(1)
    \/ \E r \in RangeHeaders, up \in StreamOutcomes : UpstreamFetchStream(1, r, up)
    \/ ForwardChunk(1)
    \/ StreamEnd(1)

SpecStream == Init /\ [][NextStream]_vars

\* every step of a request is taken in the end: the thread is scheduled, the
\* resolver returns, and the upstream delivers, closes or is cut off
SpecStreamFair == SpecStream /\ WF_vars(RequestStep(1))

(***************************************************************************)
(* Properties.                                                             *)
(***************************************************************************)
Accepted(payload) == payload # None
Expired(tok, t) == IsJwt(tok) /\ tok.payload.exp * TicksPerSecond <= t
Pipeline == {"p_lookup", "p_resolving", "p_store", "p_fetch"}
\* the tokens get_video_details returns to user u for video v at this clock reading
IssuedNow(v, u) ==
    {generate_playback_token(v, u, t1, now, env) : t1 \in {i \in Instants : i <= now}}

\* C1: of the threads resolving one content identifier at the same time, only
\* one has invoked the external resolver: no two threads are inside the
\* resolver call for the same youtube_id.
C1_OneResolverCallPerKey ==
    \A p \in Procs, q \in Procs :
        (p # q /\ pc[p] = "p_resolving" /\ pc[q] = "p_resolving")
            => loc[p].key # loc[q].key

\* C2 (as stated): a token verified at the instant get_video_details returned it,
\* with the same video and user, is accepted, and the payload returned has the
\* video, the user, the type 'playback' and exactly the instants of issue and of
\* expiry that generate_playback_token put in.
C2_RoundTripExactInstants ==
    (last.ev = "details" /\ last.resp.status = 200) =>
        LET payload == verify_playback_token(last.resp.playback_token,
                                             last.video_id, last.identity, now, env)
        IN  /\ Accepted(payload)
            /\ payload.video_id = last.video_id
            /\ payload.user_id = last.identity
            /\ payload.type = "playback"
            /\ payload.iat * TicksPerSecond = last.iat
            /\ payload.exp * TicksPerSecond = last.exp

\* C2 (amended): a token verified at the instant get_video_details returned it,
\* with the same video and user, is accepted (stream_video answers 200 to it),
\* and the payload returned has the video, the user, the type 'playback' and
\* the instants of issue and of expiry put in, each cut to whole seconds.
C2_RoundTripWholeSeconds ==
    /\ (last.ev = "details" /\ last.resp.status = 200) =>
          verify_playback_token(last.resp.playback_token,
                                last.video_id, last.identity, now, env)
            = [video_id |-> last.video_id, user_id |-> last.identity,
               type |-> "playback", iat |-> Sec(last.iat), exp |-> Sec(last.exp)]
    /\ (last.ev = "stream" /\ last.token \in IssuedNow(last.video_id, last.identity))
          => last.resp.status = 200

\* a token issued at a clock reading off the whole second is presented to
\* stream_video at that very reading and accepted
C2_Witness ==
    /\ last.ev = "stream"
    /\ last.token \in IssuedNow(last.video_id, last.identity)
    /\ now % TicksPerSecond # 0
    /\ last.resp.status = 200

\* C3: a token whose expiry has come (now >= exp) fails both verifications
\* whatever video and user are expected; stream_video and proxy_video answer it
\* 400, and a request let on to the cache, the resolver and the upstream
\* presented a token that had not expired.
C3_ExpiredRejected ==
    /\ \A tok \in Issuable(now, env) :
          Expired(tok, now) =>
             \A v \in VideoIds :
                /\ ~Accepted(verify_playback_token_without_user(tok, v, now, env))
                /\ \A u \in Users : ~Accepted(verify_playback_token(tok, v, u, now, env))
    /\ (last.ev \in {"stream", "proxy"} /\ Expired(last.token, now))
          => last.resp.status = 400
    /\ last.ev = "proxy_admitted" => ~Expired(last.token, now)
    /\ \A p \in Procs : pc[p] \in Pipeline => Accepted(loc[p].token_data)

\* proxy_video turns away a token of the right video, rightly signed, that
\* has expired
C3_Witness ==
    /\ env = "set"
    /\ last.ev = "proxy"
    /\ last.token \in Issuable(now, env)
    /\ last.token.payload.video_id = last.video_id
    /\ Expired(last.token, now)
    /\ last.resp.status = 400

\* C4: of an issued token that has not expired, verify_playback_token fails
\* when the video expected is not the token's and when the user expected is
\* not the token's (stream_video answers 400), and
\* verify_playback_token_without_user fails when the video expected is not
\* the token's (video_player answers 400).
C4_MismatchRejected ==
    /\ (/\ last.ev = "stream"
        /\ last.token \in Issuable(now, env)
        /\ ~Expired(last.token, now)
        /\ \/ last.token.payload.video_id # last.video_id
           \/ last.token.payload.user_id # last.identity)
          => /\ ~Accepted(verify_playback_token(last.token, last.video_id,
                                                last.identity, now, env))
             /\ last.resp.status = 400
    /\ (/\ last.ev = "player"
        /\ last.token \in Issuable(now, env)
        /\ ~Expired(last.token, now)
        /\ last.token.payload.video_id # last.video_id)
          => /\ ~Accepted(verify_playback_token_without_user(last.token, last.video_id,
                                                             now, env))
             /\ last.resp.status = 400

\* stream_video turns away a live token of the right video presented by
\* another user than the one it was issued to
C4_Witness ==
    /\ last.ev = "stream"
    /\ last.token \in Issuable(now, env)
    /\ ~Expired(last.token, now)
    /\ last.token.payload.video_id = last.video_id
    /\ last.token.payload.user_id # last.identity
    /\ last.resp.status = 400

\* C5: no token string is accepted that generate_playback_token has not produced
\* under the signing key in force: a string got by altering the payload or the
\* signature of an issued token fails verify_playback_token (stream_video
\* answers 400) and verify_playback_token_without_user (video_player answers
\* 400), whatever video and user are expected.
C5_TamperedRejected ==
    /\ (last.ev = "stream" /\ last.token \notin Issuable(now, env))
          => /\ ~Accepted(verify_playback_token(last.token, last.video_id,
                                                last.identity, now, env))
             /\ last.resp.status = 400
    /\ (last.ev = "player" /\ last.token \notin Issuable(now, env))
          => /\ ~Accepted(verify_playback_token_without_user(last.token, last.video_id,
                                                             now, env))
             /\ last.resp.status = 400

\* video_player turns away a live token whose payload was altered to name the
\* video asked for
C5_Witness ==
    /\ env = "set"
    /\ last.ev = "player"
    /\ IsJwt(last.token)
    /\ last.token \notin Issuable(now, env)
    /\ \E tok \in Issuable(now, env) :
          /\ ~Expired(tok, now)
          /\ last.token = [tok EXCEPT !.payload.video_id = last.video_id]
    /\ last.resp.status = 400

\* a step in which thread p makes the cache lookup of _extract_stream_data
LookupStep(p) == pc[p] = "p_lookup" /\ pc'[p] # "p_lookup"
\* a step in which a request to /stream or /proxy arrives and is checked
ArrivalStep == last = NoLast /\ last'.ev \in {"stream", "proxy", "proxy_admitted"}

\* C6: an entry stored at clock reading t0 has expires_at = t0 + 3600 seconds;
\* the lookup returns an entry only when now < expires_at; a resolution call
\* that finds an entry with now >= expires_at treats it as absent (deletes it)
\* and goes on to invoke the external resolver.
C6_EntryLifetime ==
    [][/\ \A p \in Procs :
             (pc[p] = "p_store" /\ pc'[p] # "p_store")
                => cache'[loc[p].key] =
                      [url |-> loc[p].url, headers |-> loc[p].headers,
                       expires_at |-> now + 3600 * TicksPerSecond]
       /\ \A k \in YoutubeIds :
             (cache'[k] # cache[k] /\ cache'[k] # NoEntry)
                => cache'[k].expires_at = now + 3600 * TicksPerSecond
       /\ \A p \in Procs :
             (LookupStep(p) /\ cache[loc[p].key] # NoEntry)
                => IF now < cache[loc[p].key].expires_at
                   THEN /\ pc'[p] = "p_fetch"
                        /\ loc'[p].url = cache[loc[p].key].url
                        /\ loc'[p].headers = cache[loc[p].key].headers
                   ELSE /\ pc'[p] = "p_resolving"
                        /\ cache'[loc[p].key] = NoEntry
       /\ \A p \in Procs :
             (LookupStep(p) /\ pc'[p] = "p_fetch")
                => /\ cache[loc[p].key] # NoEntry
                   /\ now < cache[loc[p].key].expires_at
      ]_vars

\* a thread is inside the resolver call after its lookup found an entry
\* whose expires_at had been reached
C6_Witness ==
    \E p \in Procs :
       /\ pc[p] = "p_resolving"
       /\ loc[p].found # NoEntry
       /\ loc[p].found.expires_at <= now
       /\ cache[loc[p].key] = NoEntry

\* C7: when the resolver call of a thread fails (raises, or gives no url),
\* the request is answered with the failure (500), the step writes nothing
\* to the cache, and a resolution call for that key made next would miss
\* the cache and invoke the resolver again.
C7_FailureNotCachedAndRetried ==
    [][\A p \in Procs :
          (pc[p] = "p_resolving" /\ pc'[p] = "idle")
             => /\ last'.ev = "proxy_unresolved"
                /\ last'.resp.status = 500
                /\ cache' = cache
                /\ get_cached_stream_data(cache', loc[p].key, now).cached = None
      ]_vars

\* C8: when the cache holds an entry for the key with now < expires_at, the
\* resolution call returns that entry's url and headers, does not invoke the
\* resolver, and leaves the cache as it was.
C8_FreshEntryServed ==
    [][\A p \in Procs :
          (/\ LookupStep(p)
           /\ cache[loc[p].key] # NoEntry
           /\ cache[loc[p].key].expires_at > now)
             => /\ pc'[p] = "p_fetch"
                /\ loc'[p].url = cache[loc[p].key].url
                /\ loc'[p].headers = cache[loc[p].key].headers
                /\ cache' = cache
      ]_vars

\* a thread is about to fetch with the url and headers of the entry its
\* lookup found, and the entry is still in the cache
C8_Witness ==
    \E p \in Procs :
       /\ pc[p] = "p_fetch"
       /\ loc[p].found # NoEntry
       /\ loc[p].found.expires_at > now
       /\ loc[p].url = loc[p].found.url
       /\ loc[p].headers = loc[p].found.headers
       /\ cache[loc[p].key] = loc[p].found

\* C9: a request to /stream (by an authenticated caller) or to /proxy with no
\* token parameter is answered 400; the request goes no further (no lookup,
\* no resolver call, no upstream fetch) and the cache is unchanged.
C9_MissingTokenRejected ==
    [][(ArrivalStep /\ last'.token = NoToken)
          => /\ last'.ev # "proxy_admitted"
             /\ last'.resp.status = 400
             /\ pc' = pc
             /\ loc' = loc
             /\ cache' = cache
      ]_vars

\* /proxy has answered 400 to a request of an active video with no token,
\* while the cache held an entry
C9_Witness ==
    /\ last.ev = "proxy"
    /\ last.token = NoToken
    /\ last.resp.status = 400
    /\ FindById(last.video_id) # NoVideo
    /\ FindById(last.video_id).is_active
    /\ \E k \in YoutubeIds : cache[k] # NoEntry

\* C10: a request to /proxy or /stream whose token was issued for another
\* video than the one in the path is answered 400, and goes no further (no
\* lookup, no resolver call, no upstream fetch).
C10_OtherVideoTokenRejected ==
    [][(/\ ArrivalStep
        /\ last'.token \in Issuable(now, env) \cup OldTokens(env)
        /\ last'.token.payload.video_id # last'.video_id)
          => /\ last'.ev # "proxy_admitted"
             /\ last'.resp.status = 400
             /\ pc' = pc
             /\ loc' = loc
             /\ cache' = cache
      ]_vars

\* /proxy has answered 400 to a live token, signed with the key /proxy
\* verifies with, that was issued for another video than the active one asked
C10_Witness ==
    /\ env = "set"
    /\ last.ev = "proxy"
    /\ last.token \in Issuable(now, env)
    /\ ~Expired(last.token, now)
    /\ last.token.payload.video_id # last.video_id
    /\ FindById(last.video_id) # NoVideo
    /\ FindById(last.video_id).is_active
    /\ last.resp.status = 400

\* a step in which thread p's upstream fetch ends and the request is answered
FetchStep(p) == pc[p] = "p_fetch" /\ pc'[p] = "idle"

\* C11: when the upstream fetch of a proxy request times out, the proxy
\* answers 504, and if the request resolved the stream data itself (its
\* lookup missed), the cache does not hold for the key the url and headers
\* that its resolver call produced.
C11_TimeoutLeavesNoEntry ==
    [][\A p \in Procs :
          (FetchStep(p) /\ last'.upstream.kind = "timeout")
             => /\ last'.resp.status = 504
                /\ loc[p].found = NoEntry
                      => ~(/\ cache'[loc[p].key] # NoEntry
                           /\ cache'[loc[p].key].url = loc[p].url
                           /\ cache'[loc[p].key].headers = loc[p].headers)
      ]_vars

\* C12: of every proxy request that reaches the upstream fetch, the status
\* sent is 206 exactly when a Range header was supplied and the upstream
\* answered 206, and 200 in every other case; with no Range header it is 200.
C12_StatusOfEveryFetch ==
    [][\A p \in Procs :
          FetchStep(p)
             => /\ last'.resp.status = 206
                      <=> /\ last'.range_header # NoRange
                          /\ last'.upstream.kind = "response"
                          /\ last'.upstream.status_code = 206
                /\ last'.resp.status # 206 => last'.resp.status = 200
                /\ last'.range_header = NoRange => last'.resp.status = 200
      ]_vars

\* C12 as it holds: of every proxy request whose upstream fetch returns a
\* response, the status sent is 206 exactly when a non-empty Range header was
\* supplied and the upstream answered 206, and 200 in every other case; with
\* no Range header it is 200.
C12_StatusOfAnsweredFetch ==
    [][\A p \in Procs :
          (FetchStep(p) /\ last'.upstream.kind = "response")
             => /\ last'.resp.status = 206
                      <=> /\ last'.range_header \notin {NoRange, ""}
                          /\ last'.upstream.status_code = 206
                /\ last'.resp.status # 206 => last'.resp.status = 200
                /\ last'.range_header = NoRange => last'.resp.status = 200
      ]_vars

\* a request with a Range header was answered 206 after the upstream answered
\* 206 to a fetch carrying that Range
C12_Witness ==
    /\ last.ev = "proxy_fetched"
    /\ last.range_header = "bytes=100-199"
    /\ last.fetch.headers["Range"] = "bytes=100-199"
    /\ last.upstream.kind = "response"
    /\ last.upstream.status_code = 206
    /\ last.resp.status = 206

\* the upstream identifiers: the youtube_ids and the urls the resolver gives
UpstreamNames == YoutubeIds \cup {"u1", "u2"}
\* the strings a path is made of
PathNames(path) == {path[i] : i \in 1..Len(path)}

\* C13: no answer sent to the client carries a youtube_id or a resolved
\* upstream url: not the details answer, not the stream answer, and not the
\* player page, whose only reference to the content is token-scoped.
C13_NoUpstreamNameInResponses ==
    /\ (last.ev = "details" /\ last.resp.status = 200)
          => PathNames(last.resp.player_url.path) \cap UpstreamNames = {}
    /\ (last.ev = "stream" /\ last.resp.status = 200)
          => /\ PathNames(last.resp.stream_url.path) \cap UpstreamNames = {}
             /\ last.resp.title \notin UpstreamNames
    /\ (last.ev = "player" /\ last.resp.status = 200)
          => /\ last.resp.html.videoId \notin UpstreamNames
             /\ last.resp.html.title \notin UpstreamNames

ValidFor(tok, v) ==
    /\ tok \in Issuable(now, env) \cup OldTokens(env)
    /\ ~Expired(tok, now)
    /\ tok.payload.video_id = v
\* a step in which thread p's resolver call fails
UnresolvedStep(p) == pc[p] = "p_resolving" /\ pc'[p] = "idle"

\* C15: a failing proxy request is answered with the status of the first
\* failure cause that applies, in this order: 400 when the token is missing
\* or is not a live token issued for the path's video, 404 when the video
\* does not exist or is inactive, 500 when no stream url could be obtained,
\* 504 when the upstream fetch times out; a request with none of the first
\* two causes goes on to the stream data.
C15_StatusOfFirstCause ==
    [][/\ (last = NoLast /\ last'.ev \in {"proxy", "proxy_admitted"})
             => IF ~ValidFor(last'.token, last'.video_id)
                THEN last'.ev = "proxy" /\ last'.resp.status = 400
                ELSE IF \/ FindById(last'.video_id) = NoVideo
                        \/ ~FindById(last'.video_id).is_active
                THEN last'.ev = "proxy" /\ last'.resp.status = 404
                ELSE last'.ev = "proxy_admitted"
       /\ \A p \in Procs : UnresolvedStep(p) => last'.resp.status = 500
       /\ \A p \in Procs :
             (FetchStep(p) /\ last'.upstream.kind = "timeout")
                => last'.resp.status = 504
      ]_vars

\* C16: a resolver call in progress for one key never blocks a request for
\* another key: no thread holds _cache_lock while it is inside the resolver
\* call, and while thread p is inside the resolver call for its key, a
\* thread q serving another key can take its next step (take the lock and
\* read a fresh entry, start its own resolver call, store and finish)
\* without p's call ending, or waits only for a third thread that is inside
\* a 'with _cache_lock:' block and can leave it.
C16_NoBlockingAcrossKeys ==
    /\ \A p \in Procs : pc[p] = "p_resolving" => ~HoldsLock(p)
    /\ \A p \in Procs, q \in Procs :
          (/\ pc[p] = "p_resolving"
           /\ pc[q] \in Pipeline \cup {"p_lookup_locked", "p_store_locked"}
           /\ loc[q].key # loc[p].key)
             => \/ ENABLED (PipelineStep(q) /\ pc'[p] = "p_resolving")
                \/ \E r \in Procs \ {p, q} :
                      /\ HoldsLock(r)
                      /\ ENABLED (LookupLocked(r) \/ StoreLocked(r))

\* while one thread is inside the resolver call for yA, another holds the
\* lock to read the fresh entry of yB
C16_Witness ==
    \E p \in Procs, q \in Procs :
       /\ pc[p] = "p_resolving"
       /\ loc[p].key = "yA"
       /\ pc[q] = "p_lookup_locked"
       /\ loc[q].key = "yB"
       /\ cache["yB"] # NoEntry
       /\ cache["yB"].expires_at > now

\* C17: when the upstream answers the fetch of a proxy request with a status
\* other than 200 or 206, the proxy's answer is neither 200 nor 206.
C17_UpstreamFailureNotSuccess ==
    (/\ last.ev = "proxy_fetched"
     /\ last.upstream.kind = "response"
     /\ last.upstream.status_code \notin {200, 206})
       => last.resp.status \notin {200, 206}

\* C18: a session token of the auth routes is refused by both playback
\* verifiers, and so is any token whose type is not 'playback', even one
\* signed with the playback key the verifier uses: stream_video
\* (verify_playback_token) and video_player
\* (verify_playback_token_without_user) answer 400 to them.
C18_OtherTokenClassRejected ==
    /\ (/\ last.ev = "stream"
        /\ IsJwt(last.token)
        /\ last.token \in SessionTokens(now, env) \/ last.token.payload.type # "playback")
          => /\ ~Accepted(verify_playback_token(last.token, last.video_id,
                                                last.identity, now, env))
             /\ last.resp.status = 400
    /\ (/\ last.ev = "player"
        /\ IsJwt(last.token)
        /\ last.token \in SessionTokens(now, env) \/ last.token.payload.type # "playback")
          => /\ ~Accepted(verify_playback_token_without_user(last.token, last.video_id,
                                                             now, env))
             /\ last.resp.status = 400

\* stream_video has answered 400 to a live token of type 'access' that is
\* signed with the playback key and carries the video and the caller asked
C18_Witness ==
    /\ last.ev = "stream"
    /\ IsJwt(last.token)
    /\ last.token.payload.type = "access"
    /\ last.token.sig = HS256(get_video_secret(env), last.token.payload)
    /\ ~Expired(last.token, now)
    /\ last.token.payload.video_id = last.video_id
    /\ last.token.payload.user_id = last.identity
    /\ last.video_id \in ActiveVideoIds
    /\ last.resp.status = 400

\* video_player has answered 400 to a live session token
C18_WitnessSession ==
    /\ last.ev = "player"
    /\ last.token \in SessionTokens(now, env)
    /\ ~Expired(last.token, now)
    /\ last.resp.status = 400

\* C19: under one signing key, a token that verifies at some clock reading
\* verifies at every later reading before its expiry with the same expected
\* video and user, in every state the requests served in between (proxy
\* requests that succeeded or failed, cache changes, other verifications)
\* have led to: stream_video and proxy_video never answer 400 to it.
C19_ValidUntilExpiry ==
    /\ (/\ last.ev = "stream"
        /\ IsJwt(last.token)
        /\ ~Expired(last.token, now)
        /\ \E t \in Instants :
              /\ t <= now
              /\ Accepted(verify_playback_token(last.token, last.video_id,
                                                last.identity, t, env)))
          => /\ Accepted(verify_playback_token(last.token, last.video_id,
                                               last.identity, now, env))
             /\ last.resp.status # 400
    /\ (/\ last.ev \in {"proxy", "proxy_admitted"}
        /\ IsJwt(last.token)
        /\ ~Expired(last.token, now)
        /\ \E t \in Instants :
              /\ t <= now
              /\ Accepted(verify_playback_token_without_user(last.token, last.video_id,
                                                             t, env)))
          => /\ Accepted(verify_playback_token_without_user(last.token, last.video_id,
                                                            now, env))
             /\ last.ev = "proxy" => last.resp.status # 400

\* stream_video has accepted a token issued at an earlier clock reading,
\* after proxy requests that left an entry in the cache
C19_Witness ==
    /\ last.ev = "stream"
    /\ last.resp.status = 200
    /\ last.token.payload.iat * TicksPerSecond < now
    /\ \E k \in YoutubeIds : cache[k] # NoEntry

\* C20: every token generate_playback_token produces has exp equal to iat
\* plus exactly 3600 seconds, whatever time passes between the two readings
\* of the clock.
C20_ExpiryOneHourAfterIssue ==
    (last.ev = "details" /\ last.resp.status = 200)
       => last.resp.playback_token.payload.exp
             = last.resp.playback_token.payload.iat + 3600

\* the check that fails first for token tok, expected video v and expected
\* user u ("" for the path without a user), under key k at clock reading t
FailureCause(tok, v, u, k, t) ==
    IF ~IsJwt(tok) THEN "Malformed"
    ELSE IF tok.sig # HS256(k, tok.payload) THEN "BadSignature"
    ELSE IF Expired(tok, t) THEN "Expired"
    ELSE IF tok.payload.type # "playback" THEN "WrongKind"
    ELSE IF tok.payload.video_id # v THEN "ResourceMismatch"
    ELSE IF u # "" /\ tok.payload.user_id # u THEN "SubjectMismatch"
    ELSE "none"

\* C21: the outcome of a failed verification tells which check failed: two
\* tokens refused for different causes (malformed, bad signature, expired,
\* wrong kind, video mismatch, user mismatch) never get the same outcome from
\* verify_playback_token, nor from verify_playback_token_without_user.
C21_FailureCausesDistinguished ==
    /\ (last.ev = "stream" /\ last.token # NoToken)
          => \A tok \in TokTokens(now, env) \ {NoToken} :
                LET c1 == FailureCause(last.token, last.video_id, last.identity,
                                       get_video_secret(env), now)
                    c2 == FailureCause(tok, last.video_id, last.identity,
                                       get_video_secret(env), now)
                IN  (c1 # "none" /\ c2 # "none" /\ c1 # c2)
                       => verify_playback_token(last.token, last.video_id,
                                                last.identity, now, env)
                          # verify_playback_token(tok, last.video_id,
                                                  last.identity, now, env)
    /\ (last.ev = "player" /\ last.token # NoToken)
          => \A tok \in TokTokens(now, env) \ {NoToken} :
                LET c1 == FailureCause(last.token, last.video_id, "",
                                       without_user_secret(env), now)
                    c2 == FailureCause(tok, last.video_id, "",
                                       without_user_secret(env), now)
                IN  (c1 # "none" /\ c2 # "none" /\ c1 # c2)
                       => verify_playback_token_without_user(last.token, last.video_id,
                                                             now, env)
                          # verify_playback_token_without_user(tok, last.video_id,
                                                               now, env)

\* the stages of a proxy request with the thread at pcp and its locals l:
\* past the admission the token has been validated for the path's video, at
\* the fetch a stream url has been obtained, and bytes are forwarded only
\* under the status of an answered fetch
StagesHold(pcp, l) ==
    /\ pcp \in {"p_lookup", "p_resolving", "p_store", "p_fetch", "p_streaming"}
          => /\ Accepted(l.token_data)
             /\ l.token_data.video_id = l.video_id
    /\ pcp \in {"p_lookup", "p_resolving"} => l.url = ""
    /\ pcp \in {"p_store", "p_fetch", "p_streaming"} => l.url # ""
    /\ pcp # "p_streaming" => (l.sent = <<>> /\ l.status = 0)
    /\ pcp = "p_streaming" => l.status \in {200, 206}
\* the order of the stages
StageOrder ==
    {<<"idle", "p_lookup">>, <<"p_lookup", "p_fetch">>, <<"p_lookup", "p_resolving">>,
     <<"p_resolving", "p_store">>, <<"p_store", "p_fetch">>,
     <<"p_fetch", "p_streaming">>}

\* C22: a proxy request takes its stages in order and skips none: the
\* resolver is called only for a validated token, the upstream fetch is made
\* only with a stream url obtained, bytes are forwarded only after the
\* upstream has answered; a request that fails at a stage ends there.
C22_StagesInOrder ==
    [][\A p \in Procs :
          /\ StagesHold(pc[p], loc[p])
          /\ StagesHold(pc'[p], loc'[p])
          /\ pc'[p] # pc[p]
                => \/ <<pc[p], pc'[p]>> \in StageOrder
                   \/ /\ pc'[p] = "idle"
                      /\ loc'[p] = NoLoc
                      /\ pc[p] = "p_resolving" => last'.resp.status = 500
                      /\ pc[p] = "p_fetch"
                            => /\ last'.upstream.kind \in {"timeout", "error"}
                               /\ last'.resp.status \in {500, 504}
                      /\ pc[p] \in {"p_resolving", "p_fetch", "p_streaming"}
          /\ (pc[p] = "p_fetch" /\ pc'[p] = "p_streaming")
                => last'.upstream.kind = "response"
      ]_vars

\* a request has gone through every stage and its stream has ended at the
\* end of the upstream's body, all bytes forwarded
C22_Witness ==
    /\ last.ev = "proxy_streamed"
    /\ last.outcome = "COMPLETE"
    /\ last.delivered = <<1, 2, 3>>
    /\ pc[1] = "idle"

\* C23: a proxy request calls the resolver at most once and fetches upstream
\* at most once: the thread that leaves the resolver call never enters it
\* again in the same request, and after the fetch has been made (answered,
\* timed out or failed, or reset while streaming) it makes no other.
C23_AtMostOneFetchAndResolve ==
    [][\A p \in Procs :
          /\ pc'[p] = "p_resolving" => pc[p] \in {"p_resolving", "p_lookup"}
          /\ pc'[p] = "p_lookup" => pc[p] \in {"p_lookup", "idle"}
          /\ pc'[p] = "p_fetch" => pc[p] \in {"p_fetch", "p_lookup", "p_store"}
          /\ pc'[p] = "p_store" => pc[p] \in {"p_store", "p_resolving"}
          /\ (pc[p] = "p_fetch" /\ pc'[p] # "p_fetch")
                => pc'[p] \in {"idle", "p_streaming"}
          /\ (pc[p] = "p_streaming" /\ pc'[p] # "p_streaming")
                => /\ pc'[p] = "idle"
                   /\ last'.ev = "proxy_streamed"
          /\ pc[p] = "p_streaming"
                => /\ loc'[p].url \in {loc[p].url, ""}
                   /\ pc'[p] = "p_streaming" => loc'[p].body = loc[p].body
      ]_vars

\* a stream has ended by a reset of the upstream after bytes were forwarded,
\* and the request is over
C23_Witness ==
    /\ last.ev = "proxy_streamed"
    /\ last.ending = "reset"
    /\ last.outcome = "FAILED"
    /\ last.delivered # <<>>
    /\ pc[1] = "idle"

RECURSIVE Flatten(_)
\* the bytes of a sequence of chunks, in order
Flatten(chunks) ==
    IF chunks = <<>> THEN <<>> ELSE Head(chunks) \o Flatten(Tail(chunks))
IsPrefix(s, t) == Len(s) <= Len(t) /\ s = SubSeq(t, 1, Len(s))

\* C24: the bytes forwarded to the client are at every moment the bytes of
\* the chunks taken from the upstream so far, hence a prefix in upstream
\* order of what the upstream delivered; when the upstream fails or is reset
\* while streaming, forwarding stops with what was delivered, nothing is put
\* in the place of the missing bytes and the status sent stays as it was.
C24_ForwardedBytesArePrefix ==
    [][\A p \in Procs :
          /\ pc[p] = "p_streaming"
                => /\ loc[p].sent = Flatten(SubSeq(loc[p].body, 1, loc[p].pos))
                   /\ IsPrefix(loc[p].sent, Flatten(loc[p].body))
          /\ (pc[p] = "p_streaming" /\ pc'[p] = "p_streaming")
                => /\ IsPrefix(loc[p].sent, loc'[p].sent)
                   /\ IsPrefix(loc'[p].sent, Flatten(loc[p].body))
                   /\ loc'[p].status = loc[p].status
                   /\ loc'[p].body = loc[p].body
          /\ (pc[p] = "p_streaming" /\ pc'[p] # "p_streaming")
                => /\ last'.ev = "proxy_streamed"
                   /\ last'.delivered = loc[p].sent
                   /\ last'.delivered = Flatten(last'.upstream_body)
                   /\ last'.status = loc[p].status
                   /\ last'.ending # "eof" => last'.outcome = "FAILED"
                   /\ pc'[p] = "idle"
      ]_vars

\* a stream is under way with part of the upstream's bytes forwarded, of a
\* body that the upstream will cut by a reset
C24_Witness ==
    /\ pc[1] = "p_streaming"
    /\ loc[1].ending = "reset"
    /\ loc[1].sent = <<1, 2>>
    /\ Flatten(loc[1].body) = <<1, 2, 3>>
    /\ loc[1].status = 206

\* the header names proxy_video sets on a streamed response
ProxyHeaderNames ==
    {"Content-Type", "Accept-Ranges", "Access-Control-Allow-Origin",
     "Content-Length", "Content-Range"}

\* C25: a streamed proxy response carries no header but Content-Type,
\* Accept-Ranges, Access-Control-Allow-Origin, Content-Length and
\* Content-Range: no other header of the upstream's response and none of the
\* fetch headers the resolver supplied (nor the Range merged into them) is
\* copied to the client.
C25_OnlyProxyHeaders ==
    last.ev = "proxy_responded"
       => /\ DOMAIN last.resp.headers \subseteq ProxyHeaderNames
          /\ \A h \in DOMAIN last.upstream.headers \ ProxyHeaderNames :
                h \notin DOMAIN last.resp.headers
          /\ \A h \in DOMAIN last.fetch.headers : h \notin DOMAIN last.resp.headers
          /\ \A h \in DOMAIN last.resp.headers :
                \A g \in DOMAIN last.fetch.headers :
                   last.resp.headers[h] # last.fetch.headers[g]

\* a response was streamed for a fetch that carried a Cookie of the resolver
\* and whose upstream answer carried Set-Cookie
C25_Witness ==
    /\ last.ev = "proxy_responded"
    /\ "Cookie" \in DOMAIN last.fetch.headers
    /\ "Set-Cookie" \in DOMAIN last.upstream.headers
    /\ DOMAIN last.resp.headers =
          {"Content-Type", "Accept-Ranges", "Access-Control-Allow-Origin", "Content-Length"}

\* C26: of every streamed proxy response, Accept-Ranges is 'bytes';
\* Content-Type is the upstream's, or 'video/mp4' when the upstream gave
\* none; Content-Length is there exactly when the upstream gave it, with the
\* upstream's value; and so is Content-Range.
C26_HeaderValues ==
    last.ev = "proxy_responded"
       => LET up == last.upstream.headers
              hs == last.resp.headers
          IN  /\ "Accept-Ranges" \in DOMAIN hs /\ hs["Accept-Ranges"] = "bytes"
              /\ "Content-Type" \in DOMAIN hs
              /\ hs["Content-Type"] = IF "Content-Type" \in DOMAIN up
                                      THEN up["Content-Type"] ELSE "video/mp4"
              /\ \A h \in {"Content-Length", "Content-Range"} :
                    /\ h \in DOMAIN hs <=> h \in DOMAIN up
                    /\ h \in DOMAIN up => hs[h] = up[h]

\* responses were streamed for an upstream answer with a Content-Type of its
\* own and a Content-Length but no Content-Range
C26_Witness ==
    /\ last.ev = "proxy_responded"
    /\ "Content-Type" \in DOMAIN last.upstream.headers
    /\ last.resp.headers["Content-Type"] = "video/webm"
    /\ last.resp.headers["Content-Length"] = "300"
    /\ "Content-Range" \notin DOMAIN last.resp.headers
    /\ last.resp.headers["Accept-Ranges"] = "bytes"

\* the (url, headers) pairs a resolver call can produce
ResolverResults == {ResolveResult(out) : out \in ResolverOutcomes} \ {NoResult}
\* entry e holds the url and headers of one resolver result
WholeEntry(e) == [url |-> e.url, headers |-> e.headers] \in ResolverResults

\* C27: under every interleaving of the threads that read and write the
\* cache, an entry is only ever written whole by one store (the url and
\* headers of one resolver result with the expiry of that store), replaced
\* whole or deleted; and a reader takes its url and headers from one entry as
\* it stood in the cache, never from a mix of an old and a new one.
C27_EntriesWhole ==
    [][/\ \A k \in YoutubeIds : cache[k] # NoEntry => WholeEntry(cache[k])
       /\ \A k \in YoutubeIds :
             (cache'[k] # cache[k] /\ cache'[k] # NoEntry)
                => \E p \in Procs :
                      /\ pc[p] \in {"p_store", "p_store_locked"}
                      /\ pc'[p] = "p_fetch"
                      /\ loc[p].key = k
                      /\ WholeEntry(cache'[k])
                      /\ cache'[k] = [url |-> loc[p].url, headers |-> loc[p].headers,
                                      expires_at |-> now + CACHE_DURATION * TicksPerSecond]
       /\ \A p \in Procs :
             (pc[p] \in {"p_lookup", "p_lookup_locked"} /\ pc'[p] = "p_fetch")
                => /\ cache[loc[p].key] # NoEntry
                   /\ loc'[p].found = cache[loc[p].key]
                   /\ loc'[p].url = cache[loc[p].key].url
                   /\ loc'[p].headers = cache[loc[p].key].headers
       /\ \A p \in Procs :
             pc[p] = "p_fetch"
                => [url |-> loc[p].url, headers |-> loc[p].headers] \in ResolverResults
      ]_vars

\* a thread holds the lock to store a result over the different entry that
\* another thread, which missed the cache at the same time, has stored
C27_Witness ==
    \E p \in Procs :
       /\ pc[p] = "p_store_locked"
       /\ cache[loc[p].key] # NoEntry
       /\ cache[loc[p].key].url # loc[p].url
       /\ cache[loc[p].key].headers # loc[p].headers

\* C28: handling a proxy request never alters the contents of an entry the
\* cache holds: an entry stays as it is until it is deleted at expiry or
\* replaced by a store, and the fetch, with the client's Range merged into
\* its headers, leaves the cache as it was; so the fetch of a request with
\* no Range header carries no Range header.
C28_EntryContentsUntouched ==
    [][/\ \A p \in Procs : FetchStep(p) => cache' = cache
       /\ \A k \in YoutubeIds :
             (cache[k] # NoEntry /\ cache'[k] # cache[k])
                => \/ /\ cache'[k] = NoEntry
                      /\ cache[k].expires_at <= now
                      /\ \E p \in Procs : LookupStep(p) /\ loc[p].key = k
                   \/ \E p \in Procs :
                         /\ pc[p] = "p_store" /\ pc'[p] = "p_fetch"
                         /\ loc[p].key = k
       /\ \A p \in Procs :
             (FetchStep(p) /\ ~HasRange(last'.range_header))
                => "Range" \notin DOMAIN last'.fetch.headers
       /\ \A k \in YoutubeIds :
             cache[k] # NoEntry => "Range" \notin DOMAIN cache[k].headers
      ]_vars

\* a fetch has been made with the client's Range merged into the headers of
\* the entry the cache holds, and the entry's headers have no Range
C28_Witness ==
    /\ last.ev = "proxy_fetched"
    /\ HasRange(last.range_header)
    /\ last.fetch.headers["Range"] = last.range_header
    /\ cache[last.key] # NoEntry
    /\ last.fetch.url = cache[last.key].url
    /\ "Range" \notin DOMAIN cache[last.key].headers
    /\ \A h \in DOMAIN cache[last.key].headers :
          last.fetch.headers[h] = cache[last.key].headers[h]

\* C29: whether JWT_SECRET_KEY is set or not, verify_playback_token_without_user
\* accepts a token for a video exactly when verify_playback_token accepts it
\* for that video and some user; hence video_player (and proxy_video, which
\* verifies in the same way) does not answer 400 to an unexpired token that
\* generate_playback_token issued for the video asked.
C29_OneVerificationTwoPaths ==
    last.ev = "player"
       => /\ Accepted(verify_playback_token_without_user(last.token, last.video_id,
                                                         now, env))
             <=> \E u \in Users :
                    Accepted(verify_playback_token(last.token, last.video_id,
                                                   u, now, env))
          /\ (/\ last.token \in Issuable(now, env)
              /\ ~Expired(last.token, now)
              /\ last.token.payload.video_id = last.video_id)
                => last.resp.status # 400

\* the request of thread p is in a stage between its admission and its end
InFlight(p) == pc[p] \in {"p_lookup", "p_resolving", "p_store", "p_fetch", "p_streaming"}
\* the request just ended COMPLETE (its stream reached the end of the
\* upstream's body) or FAILED (no stream url, fetch timeout or failure, or a
\* stream cut by a reset or a read timeout)
Terminal ==
    \/ last.ev = "proxy_unresolved" /\ last.resp.status = 500
    \/ last.ev = "proxy_fetched" /\ last.resp.status \in {500, 504}
    \/ last.ev = "proxy_streamed" /\ last.outcome \in {"COMPLETE", "FAILED"}

C31_RemovedOnlyWhenExpired ==
    [][\A k \in YoutubeIds :
          (cache[k] # NoEntry /\ cache'[k] = NoEntry)
             => /\ cache[k].expires_at <= now
                /\ now' = now]_vars

\* a reader has just found the entry of its key stale and removed it, while
\* another thread's resolution for the same key is under way and about to
\* store a fresh entry
C31_Witness ==
    \E p \in Procs, q \in Procs :
       /\ p # q
       /\ pc[p] = "p_resolving"
       /\ loc[p].found # NoEntry
       /\ loc[p].found.expires_at <= now
       /\ cache[loc[p].key] = NoEntry
       /\ pc[q] \in {"p_resolving", "p_store", "p_store_locked"}
       /\ loc[q].key = loc[p].key

\* a fresh entry stored by a concurrent resolution after a reader's stale
\* verdict on its key is in the cache, untouched by that reader
C31_WitnessFreshKept ==
    \E p \in Procs, q \in Procs :
       /\ p # q
       /\ pc[p] \in {"p_resolving", "p_store", "p_store_locked"}
       /\ loc[p].found # NoEntry
       /\ loc[p].found.expires_at <= now
       /\ pc[q] = "p_fetch"
       /\ loc[q].key = loc[p].key
       /\ cache[loc[p].key] # NoEntry
       /\ cache[loc[p].key].expires_at > now

\* C32: the expires_in a successful /video/{id}/stream answer carries never
\* exceeds what is left of the validity of the token in its stream_url: at
\* every clock reading less than expires_in seconds after the answer, the
\* proxy still accepts that token for that video.
C32_ExpiresInWithinTokenValidity ==
    (last.ev = "stream" /\ last.resp.status = 200)
       => \A t \in Instants :
             (now <= t /\ t < now + last.resp.expires_in * TicksPerSecond)
                => proxy_checks(last.video_id, last.resp.stream_url.token, t, env).status # 400

\* the answer of the handler behind event ev to a request for video v with
\* token tok, at this clock reading
AnswerOf(ev, v, tok) ==
    IF ev = "player" THEN video_player(v, tok, now, env)
                     ELSE proxy_checks(v, tok, now, env)

C33_WitnessPlayer ==
    /\ last.ev = "player"
    /\ last.token \in Issuable(now, env)
    /\ Expired(last.token, now)
    /\ FindById(last.video_id) # NoVideo
    /\ ~FindById(last.video_id).is_active
    /\ last.resp.status = 400

\* C34: a proxy request with a valid token for a video that does not exist
\* or is inactive is answered 404 and goes no further: no stage of the
\* stream-data pipeline is entered (no resolver call, no upstream fetch) and
\* the cache is left as it was, also when it holds a fresh entry for the
\* content identifier of that video.
C34_WithdrawnVideoNotFound ==
    [][(/\ last = NoLast
        /\ last'.ev \in {"proxy", "proxy_admitted"}
        /\ ValidFor(last'.token, last'.video_id)
        /\ \/ FindById(last'.video_id) = NoVideo
           \/ ~FindById(last'.video_id).is_active)
          => /\ last'.ev = "proxy"
             /\ last'.resp.status = 404
             /\ pc' = pc
             /\ loc' = loc
             /\ cache' = cache
      ]_vars

====
